---- MODULE Spec2Model ----
(***************************************************************************)
(* Model of scan_airthings_devices.py: argument parsing, the three         *)
(* coroutines scan / connect_and_read / auto_find_and_read, print_device   *)
(* and main.  The external collaborators (BleakScanner.discover and        *)
(* AirthingsBluetoothDeviceData.update_device) are modelled as calls that  *)
(* are issued, stay pending while the coroutine is suspended at its await, *)
(* and then return a value or raise.                                       *)
(*                                                                         *)
(* Python strings that the program inspects (addresses, sensor names) are  *)
(* tuples of one-character strings, so that lower() and the ordering used  *)
(* by sorted() are computed character by character.                        *)
(***************************************************************************)
EXTENDS FiniteSets, Integers, Sequences, TLC

VARIABLES args, pc, devices, target, i, client, device, calls, out, log

vars == <<args, pc, devices, target, i, client, device, calls, out, log>>

(* ---------------- bounds ---------------- *)
MaxDevices == 3
MaxSensors == 3

(* ---------------- values ---------------- *)
DefaultTimeout == 8

\* --timeout is parsed with type=float and no range check: any number is accepted
Timeouts == {0 - 1, 0, DefaultTimeout}

\* an optional string: Python None, or a str
None == [some |-> FALSE, val |-> <<>>]
Some(s) == [some |-> TRUE, val |-> s]

\* values --connect can take on the command line (None = option omitted)
ConnectValues == {None, Some(<<>>), Some(<<"a", "b">>), Some(<<"d", "d">>)}

\* BLEDevice records the scanner can report (address, advertised name)
DevicePool ==
  { [address |-> <<"A", "b">>, name |-> "Wave"],
    [address |-> <<"a", "B">>, name |-> "None"],
    [address |-> <<"c", "c">>, name |-> "Corentium"] }

NoDevice == [address |-> <<>>, name |-> "None"]

Min(a, b) == IF a <= b THEN a ELSE b

\* what BleakScanner.discover can return: a list of distinct devices
DiscoveryResults ==
  UNION { { s \in [1..n -> DevicePool] : \A x, y \in 1..n : x # y => s[x] # s[y] }
          : n \in 0..Min(MaxDevices, Cardinality(DevicePool)) }

\* str(exc) of the exceptions update_device can raise besides UnsupportedDeviceError
ExcPool == { <<"E", "1">>, <<"E", "2">> }

Outcomes == { [kind |-> "ok", exc |-> <<>>], [kind |-> "unsupported", exc |-> <<>>] }
            \cup { [kind |-> "error", exc |-> e] : e \in ExcPool }

(* ---------------- str.lower ---------------- *)
LowerChar(c) ==
  CASE c = "A" -> "a"
    [] c = "B" -> "b"
    [] c = "C" -> "c"
    [] c = "D" -> "d"
    [] OTHER -> c

lower(s) == [k \in DOMAIN s |-> LowerChar(s[k])]

(* ---------------- ordering of str, used by sorted() ---------------- *)
Ord(c) ==
  CASE c = "A" -> 65
    [] c = "B" -> 66
    [] c = "a" -> 97
    [] c = "b" -> 98
    [] OTHER -> 99

\* Python's s < t on str: first differing code point decides, a proper prefix is smaller
StrLess(s, t) ==
  \/ /\ Len(s) < Len(t)
     /\ \A k \in 1..Len(s) : s[k] = t[k]
  \/ \E k \in 1..Min(Len(s), Len(t)) :
        /\ \A j \in 1..(k - 1) : s[j] = t[j]
        /\ Ord(s[k]) < Ord(t[k])

\* Python's (k1, v1) < (k2, v2) on the items of a dict
ItemLess(a, b) == StrLess(a[1], b[1]) \/ (a[1] = b[1] /\ a[2] < b[2])

RECURSIVE InsertItem(_, _)
InsertItem(x, s) ==
  IF s = <<>> THEN <<x>>
  ELSE IF ItemLess(x, Head(s)) THEN <<x>> \o s
  ELSE <<Head(s)>> \o InsertItem(x, Tail(s))

\* variant: the items are printed in insertion order
sorted_Unsorted(items) == items

RECURSIVE sorted(_)
sorted(items) ==
  IF items = <<>> THEN <<>>
  ELSE InsertItem(items[Len(items)], sorted(SubSeq(items, 1, Len(items) - 1)))

(* ---------------- console and log lines ---------------- *)
Line(fmt, a) == [fmt |-> fmt, args |-> a]

ErrorLog(fmt, a) == [level |-> "ERROR", fmt |-> fmt, args |-> a]

(* ---------------- readings ---------------- *)
SensorNames == { <<"a">>, <<"a", "b">>, <<"b">>, <<"B">> }
SensorValues == {1, 2}

\* a dict in insertion order: a list of (name, value) items with distinct names
SensorDicts ==
  UNION { { s \in [1..n -> SensorNames \X SensorValues] :
              \A x, y \in 1..n : x # y => s[x][1] # s[y][1] }
          : n \in 0..Min(MaxSensors, Cardinality(SensorNames)) }

NoReading ==
  [name |-> "None", model |-> "None", manufacturer |-> "None", identifier |-> "None",
   sw_version |-> "None", address |-> <<>>, sensors |-> <<>>]

\* the AirthingsDevice update_device returns for BLEDevice d
Reading(d, sensors) ==
  [name |-> d.name, model |-> "Corentium Home 2", manufacturer |-> "Airthings AS",
   identifier |-> "123456", sw_version |-> "1.0", address |-> d.address,
   sensors |-> sensors]

\* the sensors dict the library builds in the orchestration runs (not in sorted order)
DefaultSensors == << <<<<"b">>, 1>>, <<<<"B">>, 2>>, <<<<"a">>, 1>> >>

Readings == { Reading(d, s) : d \in DevicePool, s \in SensorDicts }

print_device(dev) ==
  << Line("Device info:", <<>>),
     Line("  Name: {}", <<dev.name>>),
     Line("  Model: {}", <<dev.model>>),
     Line("  Manufacturer: {}", <<dev.manufacturer>>),
     Line("  Serial: {}", <<dev.identifier>>),
     Line("  Firmware: {}", <<dev.sw_version>>),
     Line("  Address: {}", <<dev.address>>),
     Line("Sensors:", <<>>) >>
  \o [k \in 1..Len(dev.sensors) |-> Line("  {}: {}", sorted(dev.sensors)[k])]
  \o << Line("\n", <<>>) >>

(* ---------------- external calls ---------------- *)
\* variant: a non-positive timeout is replaced by the default
DiscoverTimeout_Clamped(t) == IF t <= 0 THEN DefaultTimeout ELSE t

\* the timeout handed to BleakScanner.discover(timeout=timeout)
DiscoverTimeout(t) == t

DiscoverCall(t) ==
  [op |-> "discover", timeout |-> DiscoverTimeout(t), target |-> NoDevice,
   status |-> "pending", found |-> <<>>, outcome |-> "none"]

UpdateCall(d) ==
  [op |-> "update_device", timeout |-> 0, target |-> d,
   status |-> "pending", found |-> <<>>, outcome |-> "none"]

\* calls issued and not yet completed
Pending == { k \in DOMAIN calls : calls[k].status = "pending" }

\* the call the running coroutine is suspended on
Awaited == Len(calls)

Returned(k, found, outcome) ==
  [calls EXCEPT ![k].status = "returned", ![k].found = found, ![k].outcome = outcome]

Raised(k, outcome) ==
  [calls EXCEPT ![k].status = "raised", ![k].outcome = outcome]

(* ---------------- parse_args / main ---------------- *)
ArgsSpace == [connect : ConnectValues, timeout : Timeouts, imperial : BOOLEAN]

\* variant: `if args.connect is not None:`
IsTruthy_NotNone(c) == c.some

\* truth value of args.connect in `if args.connect:`
IsTruthy(c) == c.some /\ Len(c.val) > 0

NoClient == [constructed |-> FALSE, is_metric |-> FALSE]

NewClient == [constructed |-> TRUE, is_metric |-> ~args.imperial]

Init ==
  /\ args \in ArgsSpace
  /\ pc = "main"
  /\ devices = <<>>
  /\ target = <<>>
  /\ i = 0
  /\ client = NoClient
  /\ device = NoReading
  /\ calls = <<>>
  /\ out = <<>>
  /\ log = <<>>

\* main up to the first await of the coroutine it runs
Main ==
  /\ pc = "main"
  /\ IF IsTruthy(args.connect)
       THEN /\ pc' = "connect_discover"
            /\ out' = out
       ELSE /\ pc' = "scan_discover"
            /\ out' = Append(out, Line("Scanning for BLE devices for {} seconds...",
                                       <<args.timeout>>))
  /\ calls' = Append(calls, DiscoverCall(args.timeout))
  /\ UNCHANGED <<args, devices, target, i, client, device, log>>

(* ---------------- scan ---------------- *)
\* variant: scan without the empty-result branch
ScanReport_AlwaysCount(found) == Line("Found {} device(s)", <<Len(found)>>)

ScanReport(found) ==
  IF Len(found) = 0
    THEN Line("No BLE devices found", <<>>)
    ELSE Line("Found {} device(s)", <<Len(found)>>)

ScanReturn ==
  /\ pc = "scan_discover"
  /\ \E found \in DiscoveryResults :
       /\ calls' = Returned(Awaited, found, "ok")
       /\ out' = Append(out, ScanReport(found))
  /\ pc' = "scan_done"
  /\ UNCHANGED <<args, devices, target, i, client, device, log>>

(* ---------------- auto_find_and_read ---------------- *)
AutoStart ==
  /\ pc = "scan_done"
  /\ calls' = Append(calls, DiscoverCall(args.timeout))
  /\ pc' = "auto_discover"
  /\ UNCHANGED <<args, devices, target, i, client, device, out, log>>

\* variant: auto_find_and_read iterates over the list scan obtained
AutoDevices_FromScan(found) == calls[1].found

\* the list auto_find_and_read iterates over
AutoDevices(found) == found

AutoDiscoverReturn ==
  /\ pc = "auto_discover"
  /\ \E found \in DiscoveryResults :
       /\ calls' = Returned(Awaited, found, "ok")
       /\ devices' = AutoDevices(found)
  /\ IF Len(devices') = 0
       THEN /\ out' = Append(out, Line("No BLE devices found", <<>>))
            /\ pc' = "done"
            /\ UNCHANGED <<client, i>>
       ELSE /\ client' = NewClient
            /\ i' = 1
            /\ pc' = "auto_loop"
            /\ out' = out
  /\ UNCHANGED <<args, target, device, log>>

\* variant: the read is started as a task and not awaited
AutoLoop_NoAwait ==
  /\ pc = "auto_loop"
  /\ IF i <= Len(devices)
       THEN /\ out' = Append(out, Line("Attempting to read {} ({})",
                                       <<devices[i].address, devices[i].name>>))
            /\ calls' = Append(calls, UpdateCall(devices[i]))
            /\ i' = i + 1
            /\ pc' = "auto_loop"
       ELSE /\ pc' = "done"
            /\ UNCHANGED <<out, calls, i>>
  /\ UNCHANGED <<args, devices, target, client, device, log>>

\* head of `for d in devices`, up to the await of update_device
AutoLoop ==
  /\ pc = "auto_loop"
  /\ IF i <= Len(devices)
       THEN /\ out' = Append(out, Line("Attempting to read {} ({})",
                                       <<devices[i].address, devices[i].name>>))
            /\ calls' = Append(calls, UpdateCall(devices[i]))
            /\ pc' = "auto_update"
       ELSE /\ pc' = "done"
            /\ UNCHANGED <<out, calls>>
  /\ UNCHANGED <<args, devices, target, i, client, device, log>>

\* variant: the messages of the loop do not name the device
AutoFailureLog_NoAddress(d, outcome) ==
  IF outcome.kind = "unsupported"
    THEN ErrorLog("The device is not a supported Airthings device.", <<>>)
    ELSE ErrorLog("Error connecting/reading device: {}", <<outcome.exc>>)

AutoFailureLog(d, outcome) ==
  IF outcome.kind = "unsupported"
    THEN ErrorLog("Unsupported Airthings device at {}", <<d.address>>)
    ELSE ErrorLog("Error reading {}: {}", <<d.address, outcome.exc>>)

\* variant: the try block encloses the loop, so a failure ends it
NextPcAfterRead_AbortOnFailure(outcome) ==
  IF outcome.kind = "ok" THEN "auto_loop" ELSE "done"

\* where the loop goes after one device has been handled
NextPcAfterRead(outcome) == "auto_loop"

AutoUpdateReturn ==
  /\ pc = "auto_update"
  /\ \E outcome \in Outcomes :
       /\ IF outcome.kind = "ok"
            THEN /\ calls' = Returned(Awaited, <<>>, "ok")
                 /\ device' = Reading(devices[i], DefaultSensors)
                 /\ out' = out \o print_device(device')
                 /\ log' = log
            ELSE /\ calls' = Raised(Awaited, outcome.kind)
                 /\ log' = Append(log, AutoFailureLog(devices[i], outcome))
                 /\ UNCHANGED <<device, out>>
       /\ pc' = NextPcAfterRead(outcome)
  /\ i' = i + 1
  /\ UNCHANGED <<args, devices, target, client>>

(* ---------------- connect_and_read ---------------- *)
\* variant: addresses compared without lower()
FindTarget_ExactCase(devs, address) ==
  LET M == { k \in DOMAIN devs : devs[k].address = address }
  IN  IF M = {} THEN <<>>
      ELSE << devs[CHOOSE k \in M : \A j \in M : k <= j] >>

\* variant: `target = d` outside the if, so without a match the last device stays
FindTarget_FallsThrough(devs, address) ==
  LET M == { k \in DOMAIN devs : lower(devs[k].address) = lower(address) }
  IN  IF M = {} THEN (IF devs = <<>> THEN <<>> ELSE << devs[Len(devs)] >>)
      ELSE << devs[CHOOSE k \in M : \A j \in M : k <= j] >>

\* the first device whose lower-cased address equals the lower-cased argument,
\* as a list of at most one element (empty = None)
FindTarget(devs, address) ==
  LET M == { k \in DOMAIN devs : lower(devs[k].address) = lower(address) }
  IN  IF M = {} THEN <<>>
      ELSE << devs[CHOOSE k \in M : \A j \in M : k <= j] >>

ConnectDiscoverReturn ==
  /\ pc = "connect_discover"
  /\ \E found \in DiscoveryResults :
       /\ devices' = found
       /\ target' = FindTarget(found, args.connect.val)
       /\ IF target' = <<>>
            THEN /\ calls' = Returned(Awaited, found, "ok")
                 /\ out' = out \o
                      << Line("Device with address {} not found during scan.",
                              <<args.connect.val>>),
                         Line("Run without --connect to list available addresses.", <<>>) >>
                 /\ pc' = "done"
                 /\ client' = client
            ELSE /\ client' = NewClient
                 /\ out' = Append(out, Line("Connecting to {} ...", <<target'[1].address>>))
                 /\ calls' = Append(Returned(Awaited, found, "ok"), UpdateCall(target'[1]))
                 /\ pc' = "connect_update"
  /\ UNCHANGED <<args, i, device, log>>

ConnectFailureLog(outcome) ==
  IF outcome.kind = "unsupported"
    THEN ErrorLog("The device is not a supported Airthings device.", <<>>)
    ELSE ErrorLog("Error connecting/reading device: {}", <<outcome.exc>>)

ConnectUpdateReturn ==
  /\ pc = "connect_update"
  /\ \E outcome \in Outcomes :
       IF outcome.kind = "ok"
         THEN /\ calls' = Returned(Awaited, <<>>, "ok")
              /\ device' = Reading(target[1], DefaultSensors)
              /\ out' = out \o print_device(device')
              /\ log' = log
         ELSE /\ calls' = Raised(Awaited, outcome.kind)
              /\ log' = Append(log, ConnectFailureLog(outcome))
              /\ UNCHANGED <<device, out>>
  /\ pc' = "done"
  /\ UNCHANGED <<args, devices, target, i, client>>

(* ---------------- a failing discovery ---------------- *)
\* BleakScanner.discover raises (adapter off, ...): nothing in the script catches it
DiscoverRaises ==
  /\ pc \in {"scan_discover", "auto_discover", "connect_discover"}
  /\ calls' = Raised(Awaited, "error")
  /\ pc' = "crashed"
  /\ UNCHANGED <<args, devices, target, i, client, device, out, log>>

Next ==
  \/ Main
  \/ ScanReturn
  \/ AutoStart
  \/ AutoDiscoverReturn
  \/ AutoLoop
  \/ AutoUpdateReturn
  \/ ConnectDiscoverReturn
  \/ ConnectUpdateReturn
  \/ DiscoverRaises

Spec == Init /\ [][Next]_vars

(* ---------------- print_device on its own ---------------- *)
InitPrint ==
  /\ args = [connect |-> None, timeout |-> DefaultTimeout, imperial |-> FALSE]
  /\ pc = "print_device"
  /\ devices = <<>>
  /\ target = <<>>
  /\ i = 0
  /\ client = NoClient
  /\ device \in Readings
  /\ calls = <<>>
  /\ out = <<>>
  /\ log = <<>>

PrintDevice ==
  /\ pc = "print_device"
  /\ out' = out \o print_device(device)
  /\ pc' = "printed"
  /\ UNCHANGED <<args, devices, target, i, client, device, calls, log>>

NextPrint == PrintDevice

SpecPrint == InitPrint /\ [][NextPrint]_vars

(***************************************************************************)
(* Properties                                                              *)
(***************************************************************************)
IsUpdate(c) == c.op = "update_device"
IsDiscover(c) == c.op = "discover"
IsOkCall(c) == c.status = "returned"
IsFailedCall(c) == c.status = "raised"

UpdateCalls == SelectSeq(calls, IsUpdate)
DiscoverCalls == SelectSeq(calls, IsDiscover)

Range(s) == { s[k] : k \in DOMAIN s }

\* --connect was given and its value is not the empty string
NonEmptyConnect == args.connect.some /\ args.connect.val # <<>>

\* equality of two characters up to letter case
SameLetter(a, b) ==
  a = b \/ {a, b} \in { {"A", "a"}, {"B", "b"}, {"C", "c"}, {"D", "d"} }

\* equality of two strings up to letter case
CaseEq(s, t) == Len(s) = Len(t) /\ \A k \in 1..Len(s) : SameLetter(s[k], t[k])

IsNoDevicesLine(l) == l.fmt = "No BLE devices found"
IsAddressLine(l) == l.fmt = "  Address: {}"
IsSensorLine(l) == l.fmt = "  {}: {}"
IsScanningLine(l) == l.fmt = "Scanning for BLE devices for {} seconds..."

\* the default run got as far as a completed discovery in auto_find_and_read
AutoPassDone ==
  /\ ~NonEmptyConnect
  /\ Len(calls) >= 2
  /\ calls[2].op = "discover"
  /\ calls[2].status = "returned"

\* the targeted run got as far as a completed discovery
ConnectPassDone ==
  /\ NonEmptyConnect
  /\ Len(calls) >= 1
  /\ calls[1].status = "returned"

(* ---------------- C1 ---------------- *)
\* C1: when an auto-discover run has ended, update_device was called once on
\* every discovered device, in discovery order; the readings printed are those
\* of the devices whose read returned, in order; and the error log holds one
\* entry per device whose read raised, in order, naming that device.
C1_AutoReadsAll ==
  (pc = "done" /\ AutoPassDone) =>
    LET found == calls[2].found
        U == UpdateCalls
        ok == SelectSeq(U, IsOkCall)
        bad == SelectSeq(U, IsFailedCall)
        shown == SelectSeq(out, IsAddressLine)
    IN  /\ Len(U) = Len(found)
        /\ \A k \in 1..Len(U) : U[k].target = found[k]
        /\ Len(ok) + Len(bad) = Len(U)
        /\ Len(shown) = Len(ok)
        /\ \A k \in 1..Len(ok) : shown[k].args[1] = ok[k].target.address
        /\ Len(log) = Len(bad)
        /\ \A k \in 1..Len(bad) :
              /\ log[k].args[1] = bad[k].target.address
              /\ (bad[k].outcome = "unsupported") =
                   (log[k].fmt = "Unsupported Airthings device at {}")

C1_Witness ==
  /\ pc = "done"
  /\ AutoPassDone
  /\ Len(calls[2].found) = 3
  /\ Len(UpdateCalls) = 3
  /\ UpdateCalls[1].status = "returned"
  /\ UpdateCalls[2].outcome = "unsupported"
  /\ UpdateCalls[3].status = "returned"
  /\ Len(log) = 1

(* ---------------- C2 ---------------- *)
\* C2 as stated: with a timeout that is zero or negative no call to the
\* discovery primitive and no read is ever issued.
C2_RejectedBeforeIO == (args.timeout <= 0) => calls = <<>>

\* C2 amended: whatever the timeout, zero and negative included, the run is not
\* rejected: its first step issues a discovery, and every discovery call
\* carries the --timeout value unchanged.
C2_TimeoutPassedThrough ==
  /\ pc # "main" => (Len(calls) >= 1 /\ calls[1].op = "discover")
  /\ \A k \in DOMAIN calls : calls[k].op = "discover" => calls[k].timeout = args.timeout

C2_Witness ==
  /\ args.timeout <= 0
  /\ pc = "done"
  /\ Len(DiscoverCalls) = 2
  /\ Len(UpdateCalls) >= 1

(* ---------------- C3 ---------------- *)
\* C3: in a targeted run whose discovery result holds a device matching the
\* given address up to letter case, no read is ever issued against a device
\* that does not match, and when the run has ended exactly one read was issued,
\* against the first matching device in discovery order.
C3_TargetedReadsMatch ==
  (ConnectPassDone /\ \E d \in Range(calls[1].found) : CaseEq(d.address, args.connect.val)) =>
    LET found == calls[1].found
        U == UpdateCalls
        first == CHOOSE k \in DOMAIN found :
                   /\ CaseEq(found[k].address, args.connect.val)
                   /\ \A j \in 1..(k - 1) : ~CaseEq(found[j].address, args.connect.val)
    IN  /\ \A k \in 1..Len(U) : CaseEq(U[k].target.address, args.connect.val)
        /\ Len(U) = 1
        /\ U[1].target = found[first]

C3_Witness ==
  /\ pc = "done"
  /\ ConnectPassDone
  /\ Len(calls[1].found) = 3
  /\ ~CaseEq(calls[1].found[1].address, args.connect.val)
  /\ CaseEq(calls[1].found[2].address, args.connect.val)
  /\ CaseEq(calls[1].found[3].address, args.connect.val)
  /\ Len(UpdateCalls) = 1
  /\ UpdateCalls[1].target = calls[1].found[2]
  /\ UpdateCalls[1].target.address # args.connect.val

(* ---------------- C4 ---------------- *)
\* C4: in a targeted run whose discovery result holds no device matching the
\* given address up to letter case, the run has ended normally having printed
\* the not-found message, with no read issued, no client constructed and
\* nothing logged.
C4_NotFound ==
  (ConnectPassDone /\ \A d \in Range(calls[1].found) : ~CaseEq(d.address, args.connect.val)) =>
    /\ pc = "done"
    /\ Len(out) = 2
    /\ out[1].fmt = "Device with address {} not found during scan."
    /\ out[1].args[1] = args.connect.val
    /\ UpdateCalls = <<>>
    /\ Len(calls) = 1
    /\ ~client.constructed
    /\ log = <<>>

C4_Witness ==
  /\ ConnectPassDone
  /\ Len(calls[1].found) = 2
  /\ \A d \in Range(calls[1].found) : ~CaseEq(d.address, args.connect.val)
  /\ pc = "done"
  /\ Len(out) = 2

(* ---------------- C5 ---------------- *)
NoDevicesCount == Len(SelectSeq(out, IsNoDevicesLine))

\* C5 as stated: a run without --connect whose auto-discover discovery is empty
\* prints the no-devices message exactly once and issues no read.
C5_OneMessage ==
  (pc = "done" /\ ~args.connect.some /\ AutoPassDone /\ calls[2].found = <<>>) =>
    /\ NoDevicesCount = 1
    /\ UpdateCalls = <<>>

\* C5 amended: in such a run auto_find_and_read prints the no-devices message
\* once, as the last line, and issues no read; the run as a whole prints the
\* message once per empty discovery pass, so twice when scan found nothing too.
C5_OneMessagePerEmptyPass ==
  (pc = "done" /\ AutoPassDone /\ calls[2].found = <<>>) =>
    /\ UpdateCalls = <<>>
    /\ ~client.constructed
    /\ IsNoDevicesLine(out[Len(out)])
    /\ NoDevicesCount = 1 + (IF calls[1].found = <<>> THEN 1 ELSE 0)

C5_Witness ==
  /\ pc = "done"
  /\ ~args.connect.some
  /\ AutoPassDone
  /\ calls[1].found = <<>>
  /\ calls[2].found = <<>>
  /\ NoDevicesCount = 2

(* ---------------- C6 ---------------- *)
LogIncludes(entry, address) == \E k \in DOMAIN entry.args : entry.args[k] = address

FailedReads == SelectSeq(UpdateCalls, IsFailedCall)

\* C6 as stated: in either mode every failed read has an error-level log entry
\* that includes the address of the device it failed on, and the run goes on.
C6_LoggedWithAddress ==
  /\ \A k \in 1..Len(FailedReads) :
        \E e \in Range(log) : e.level = "ERROR" /\ LogIncludes(e, FailedReads[k].target.address)
  /\ FailedReads # <<>> => pc # "crashed"

\* C6 amended: in either mode every failed read is caught where it occurred and
\* produces exactly one error-level log entry, and the run goes on; the entry
\* includes the device's address in auto-discover mode (the two messages of
\* targeted mode do not name the device).
C6_LoggedPerDevice ==
  /\ Len(log) = Len(FailedReads)
  /\ \A k \in 1..Len(log) : log[k].level = "ERROR"
  /\ ~NonEmptyConnect =>
       \A k \in 1..Len(FailedReads) : LogIncludes(log[k], FailedReads[k].target.address)
  /\ FailedReads # <<>> => pc \in {"auto_loop", "auto_update", "done"}
  /\ pc = "crashed" => calls[Len(calls)].op = "discover"

C6_Witness ==
  /\ pc = "done"
  /\ ~NonEmptyConnect
  /\ Len(FailedReads) = 2
  /\ FailedReads[1].outcome = "error"
  /\ FailedReads[2].outcome = "unsupported"
  /\ Len(log) = 2

(* ---------------- C7 ---------------- *)
\* C7: at most one external call is outstanding at any time, and it is the one
\* issued last: every earlier call has completed before the next was issued.
C7_OneOutstanding ==
  /\ Cardinality(Pending) <= 1
  /\ \A k \in 1..(Len(calls) - 1) : calls[k].status # "pending"

C7_Witness ==
  /\ Len(UpdateCalls) = 3
  /\ Pending = {Len(calls)}
  /\ calls[Len(calls)].op = "update_device"

(* ---------------- C8 ---------------- *)
TargetedShape ==
  /\ pc \in {"connect_discover", "connect_update", "done", "crashed"}
  /\ SelectSeq(out, IsScanningLine) = <<>>
  /\ Len(DiscoverCalls) = 1
  /\ Len(UpdateCalls) <= 1

DefaultShape ==
  /\ pc \in {"scan_discover", "scan_done", "auto_discover", "auto_loop", "auto_update",
             "done", "crashed"}
  /\ Len(out) >= 1
  /\ IsScanningLine(out[1])
  /\ Len(DiscoverCalls) <= 2
  /\ calls[1].op = "discover"
  /\ pc = "done" => (Len(DiscoverCalls) = 2 /\ calls[2].op = "discover")

\* C8 as stated: whenever --connect is supplied, the empty string included, the
\* run is a targeted run.
C8_ConnectSelectsTargeted == (pc # "main" /\ args.connect.some) => TargetedShape

\* C8 amended: --connect with a non-empty address selects the targeted run (one
\* discovery, at most one read, no listing scan); --connect omitted or given as
\* the empty string selects the listing scan followed by auto-discover-and-read.
C8_ModeSelection ==
  pc # "main" => IF NonEmptyConnect THEN TargetedShape /\ ~DefaultShape
                                    ELSE DefaultShape /\ ~TargetedShape

C8_Witness ==
  /\ pc = "done"
  /\ args.connect.some
  /\ args.connect.val = <<>>
  /\ Len(DiscoverCalls) = 2
  /\ Len(UpdateCalls) = 2

(* ---------------- C9 ---------------- *)
\* C9: the sensor lines print_device emits are one per sensor of the reading,
\* in strictly ascending order of sensor name, whatever the insertion order.
C9_SensorsSorted ==
  pc = "printed" =>
    LET L == SelectSeq(out, IsSensorLine)
    IN  /\ Len(L) = Len(device.sensors)
        /\ { L[k].args : k \in DOMAIN L } = Range(device.sensors)
        /\ \A k \in 1..(Len(L) - 1) : StrLess(L[k].args[1], L[k + 1].args[1])

C9_Witness ==
  /\ pc = "printed"
  /\ Len(device.sensors) = 3
  /\ device.sensors[1][1] = <<"b">>
  /\ device.sensors[2][1] = <<"a", "b">>
  /\ device.sensors[3][1] = <<"B">>
  /\ SelectSeq(out, IsSensorLine)[1].args[1] = <<"B">>

(* ---------------- C10 ---------------- *)
\* C10: every read is issued after a discovery has returned, against a device
\* of the result of the latest discovery issued before it; a default run that
\* ends has made two discovery passes, and its reads are of the second.
C10_ReadFromLatestDiscovery ==
  /\ \A k \in DOMAIN calls :
        calls[k].op = "update_device" =>
          \E j \in 1..(k - 1) :
             /\ calls[j].op = "discover"
             /\ \A m \in (j + 1)..(k - 1) : calls[m].op # "discover"
             /\ calls[j].status = "returned"
             /\ calls[k].target \in Range(calls[j].found)
  /\ (pc = "done" /\ ~NonEmptyConnect) => Len(DiscoverCalls) = 2

C10_Witness ==
  /\ pc = "done"
  /\ ~NonEmptyConnect
  /\ Len(calls[1].found) = 2
  /\ Len(UpdateCalls) = 1
  /\ UpdateCalls[1].target \notin Range(calls[1].found)

====
